---- MODULE Spec2Model ----
(***************************************************************************)
(* Model of scripts/bundle-a2ui.ts: the content-fingerprint-gated build    *)
(* orchestrator.  Strings are sequences of Unicode code points, file       *)
(* contents are sequences of bytes (0..255).  The file system is a         *)
(* function from absolute paths to entries.  SHA-256 is idealised as an    *)
(* injective function of the byte stream it is fed; everything around it   *)
(* (enumeration, sorting, framing, hex encoding, trimming) is modelled as  *)
(* the code computes it.                                                   *)
(***************************************************************************)
EXTENDS Integers, Sequences, FiniteSets, TLC

\* ------------------------------------------------------------------ bounds

\* Number of distinct byte contents tsconfig.json can take (65 = "A", 66 = "B", ...).
MaxData == 2

\* Most files in the renderer directory when the fingerprint is checked on its own.
MaxFiles == 2

\* Longest file contents, in bytes, when the fingerprint is checked on its own.
MaxLen == 1

\* ----------------------------------------------------------------- strings

Platforms == {"linux", "win32"}

\* path.sep: "\" (92) on win32, "/" (47) elsewhere.
Sep(plat) == IF plat = "win32" THEN 92 ELSE 47

\* path.join(a, b) for a non-empty directory path a and a single name b.
Join(plat, a, b) == a \o <<Sep(plat)>> \o b

RECURSIVE Flatten(_)
\* Concatenation of a sequence of sequences.
Flatten(ss) == IF ss = <<>> THEN <<>> ELSE Head(ss) \o Flatten(Tail(ss))

\* p.split(path.sep).join("/"): every separator replaced by "/".
normalize(plat, p) == [i \in 1..Len(p) |-> IF p[i] = Sep(plat) THEN 47 ELSE p[i]]

\* path.relative(root, p) for p strictly below root.
relative(root, p) == SubSeq(p, Len(root) + 2, Len(p))

\* UTF-8 encoding of one code point (hash.update(string) encodes as UTF-8).
Utf8Char(c) ==
  IF c < 128 THEN <<c>>
  ELSE IF c < 2048 THEN <<192 + (c \div 64), 128 + (c % 64)>>
  ELSE <<224 + (c \div 4096), 128 + ((c \div 64) % 64), 128 + (c % 64)>>

Utf8(s) == Flatten([i \in 1..Len(s) |-> Utf8Char(s[i])])

\* One lowercase hexadecimal digit, as a code point.
HexDigit(n) == IF n < 10 THEN 48 + n ELSE 87 + n

\* digest("hex"): two lowercase hex digits per byte.
Hex(bytes) == Flatten([i \in 1..Len(bytes) |-> <<HexDigit(bytes[i] \div 16), HexDigit(bytes[i] % 16)>>])

\* White space and line terminators removed by String.prototype.trim.
IsWhite(c) == c \in {9, 10, 11, 12, 13, 32, 160, 5760, 8232, 8233, 8239, 8287, 12288, 65279}
                 \/ (c >= 8192 /\ c <= 8202)

RECURSIVE TrimStart(_)
TrimStart(s) == IF s # <<>> /\ IsWhite(Head(s)) THEN TrimStart(Tail(s)) ELSE s

RECURSIVE TrimEnd(_)
TrimEnd(s) == IF s # <<>> /\ IsWhite(s[Len(s)]) THEN TrimEnd(SubSeq(s, 1, Len(s) - 1)) ELSE s

\* Mutant of trim: the stored text is compared as read.
trimNone(s) == s

\* String.prototype.trim
trim(s) == TrimEnd(TrimStart(s))

\* ------------------------------------------------------------ localeCompare
\* String.prototype.localeCompare with default options: the Unicode collation
\* algorithm at tertiary strength.  ECMA-262 requires canonically equivalent
\* strings to compare equal.  The tables cover the characters the model uses.

\* Canonical decomposition (NFD) of one code point: U+00E9 = U+0065 U+0301.
Decompose(c) == IF c = 233 THEN <<101, 769>> ELSE <<c>>

NFD(s) == Flatten([i \in 1..Len(s) |-> Decompose(s[i])])

IsCombining(c) == c >= 768 /\ c <= 879
IsUpper(c) == c >= 65 /\ c <= 90
IsLower(c) == c >= 97 /\ c <= 122
IsDigit(c) == c >= 48 /\ c <= 57

\* Primary weight: 0 = ignorable at this level (controls, combining marks);
\* punctuation < digits < letters, upper and lower case sharing a weight.
Primary(c) ==
  IF c < 32 \/ IsCombining(c) THEN 0
  ELSE IF IsLower(c) THEN 1000 + (c - 97)
  ELSE IF IsUpper(c) THEN 1000 + (c - 65)
  ELSE IF IsDigit(c) THEN 500 + (c - 48)
  ELSE c

\* Secondary weight: 0 = ignorable (controls), 1 = common, above = an accent.
Secondary(c) == IF c < 32 THEN 0 ELSE IF IsCombining(c) THEN c - 766 ELSE 1

\* Tertiary weight: 0 = ignorable (controls), 1 = common (lower case first), 2 = upper case.
Tertiary(c) == IF c < 32 THEN 0 ELSE IF IsUpper(c) THEN 2 ELSE 1

RECURSIVE LexCmp(_, _)
\* Lexicographic comparison of two sequences of numbers: -1, 0 or 1.
LexCmp(a, b) ==
  IF a = <<>> THEN (IF b = <<>> THEN 0 ELSE -1)
  ELSE IF b = <<>> THEN 1
  ELSE IF Head(a) < Head(b) THEN -1
  ELSE IF Head(a) > Head(b) THEN 1
  ELSE LexCmp(Tail(a), Tail(b))

PrimaryKey(s) == SelectSeq([i \in 1..Len(s) |-> Primary(s[i])], LAMBDA w : w # 0)
SecondaryKey(s) == SelectSeq([i \in 1..Len(s) |-> Secondary(s[i])], LAMBDA w : w # 0)
TertiaryKey(s) == SelectSeq([i \in 1..Len(s) |-> Tertiary(s[i])], LAMBDA w : w # 0)

\* a.localeCompare(b): negative, zero or positive.
localeCompare(a, b) ==
  LET x == NFD(a)
      y == NFD(b)
      p == LexCmp(PrimaryKey(x), PrimaryKey(y))
      s == LexCmp(SecondaryKey(x), SecondaryKey(y))
  IN  IF p # 0 THEN p
      ELSE IF s # 0 THEN s
      ELSE LexCmp(TertiaryKey(x), TertiaryKey(y))

\* --------------------------------------------------------------- file system
\* An entry of the file system.  kind "none" stands for a path that stat rejects;
\* ok = FALSE is an entry that exists but cannot be read (readFile) or listed
\* (readdir).  list is the order in which readdir returns a directory's names.

NoEntry == [kind |-> "none", ok |-> FALSE, data |-> <<>>, list |-> <<>>]
FileE(d) == [kind |-> "file", ok |-> TRUE, data |-> d, list |-> <<>>]
DirE(l) == [kind |-> "dir", ok |-> TRUE, data |-> <<>>, list |-> l]
Unreadable(e) == [e EXCEPT !.ok = FALSE]

\* Stand-ins for the fixed paths: only their distinctness and relative order matter.
\* repoRoot = "/r" ("C:\r" on win32).
repoRoot(plat) == IF plat = "win32" THEN <<67, 58, 92, 114>> ELSE <<47, 114>>
\* src/canvas-host/a2ui/.bundle.hash ~ "s/h"
hashFilePath(plat) == Join(plat, Join(plat, repoRoot(plat), <<115>>), <<104>>)
\* src/canvas-host/a2ui/a2ui.bundle.js ~ "s/o"
outputFilePath(plat) == Join(plat, Join(plat, repoRoot(plat), <<115>>), <<111>>)
\* vendor/a2ui/renderers/lit ~ "v/l"
a2uiRendererDir(plat) == Join(plat, Join(plat, repoRoot(plat), <<118>>), <<108>>)
\* apps/shared/OpenClawKit/Tools/CanvasA2UI ~ "a/c"
a2uiAppDir(plat) == Join(plat, Join(plat, repoRoot(plat), <<97>>), <<99>>)
\* package.json ~ "pa"
manifestPath(plat) == Join(plat, repoRoot(plat), <<112, 97>>)
\* pnpm-lock.yaml ~ "pn"
lockfilePath(plat) == Join(plat, repoRoot(plat), <<112, 110>>)

inputPaths(plat) == <<manifestPath(plat), lockfilePath(plat), a2uiRendererDir(plat), a2uiAppDir(plat)>>

\* fs.stat(p) of file system fs (a function from paths to entries).
Stat(fs, p) == IF p \in DOMAIN fs THEN fs[p] ELSE NoEntry

\* exists(p): true iff stat succeeds; every failure collapses to false.
exists(fs, p) == Stat(fs, p).kind # "none"

RECURSIVE walk(_, _, _, _)
RECURSIVE walkEntries(_, _, _, _, _)
\* Mutant of walk: a directory is passed over, not descended into.
walkShallow(plat, fs, entryPath, out) ==
  LET st == Stat(fs, entryPath)
  IN  IF st.kind = "none" THEN [out EXCEPT !.err = TRUE]
      ELSE IF st.kind = "dir" THEN out
      ELSE [out EXCEPT !.files = Append(@, entryPath)]

\* walk(entryPath, out): out is [err, files]; err = TRUE means a stat or readdir threw.
walk(plat, fs, entryPath, out) ==
  LET st == Stat(fs, entryPath)
  IN  IF st.kind = "none" THEN [out EXCEPT !.err = TRUE]
      ELSE IF st.kind = "dir"
        THEN IF ~st.ok THEN [out EXCEPT !.err = TRUE]
             ELSE walkEntries(plat, fs, entryPath, st.list, out)
      ELSE [out EXCEPT !.files = Append(@, entryPath)]

\* for (const entry of entries) await walk(path.join(entryPath, entry), out)
walkEntries(plat, fs, entryPath, entries, out) ==
  IF entries = <<>> \/ out.err THEN out
  ELSE walkEntries(plat, fs, entryPath, Tail(entries),
                   walk(plat, fs, Join(plat, entryPath, Head(entries)), out))

RECURSIVE walkInputs(_, _, _, _)
\* for (const input of inputPaths) await walk(input, files)
walkInputs(plat, fs, inputs, out) ==
  IF inputs = <<>> \/ out.err THEN out
  ELSE walkInputs(plat, fs, Tail(inputs), walk(plat, fs, Head(inputs), out))

\* Mutant of compareFiles: the operands are swapped (a descending sort).
compareFilesDescending(plat, a, b) == localeCompare(normalize(plat, b), normalize(plat, a))

\* The comparator of files.sort: normalize(a).localeCompare(normalize(b)).
compareFiles(plat, a, b) == localeCompare(normalize(plat, a), normalize(plat, b))

RECURSIVE insertSorted(_, _, _)
\* x placed after every element that does not compare greater than it (stable).
insertSorted(plat, sorted, x) ==
  IF sorted = <<>> THEN <<x>>
  ELSE IF compareFiles(plat, Head(sorted), x) > 0 THEN <<x>> \o sorted
  ELSE <<Head(sorted)>> \o insertSorted(plat, Tail(sorted), x)

RECURSIVE sortFiles(_, _)
\* files.sort(comparator): Array.prototype.sort is stable.
sortFiles(plat, files) ==
  IF files = <<>> THEN <<>>
  ELSE insertSorted(plat, sortFiles(plat, SubSeq(files, 1, Len(files) - 1)), files[Len(files)])

\* Mutant of frame: the path is left out of the hash.
frameNoPath(plat, fs, filePath) == fs[filePath].data \o <<0>>

\* The bytes one file contributes: normalized relative path, 0x00, contents, 0x00.
frame(plat, fs, filePath) ==
  Utf8(normalize(plat, relative(repoRoot(plat), filePath))) \o <<0>> \o fs[filePath].data \o <<0>>

\* The byte stream fed to the hash, files taken in the given order.
hashStream(plat, fs, files) == Flatten([i \in 1..Len(files) |-> frame(plat, fs, files[i])])

\* createHash("sha256"): idealised as injective on the stream, here the stream itself.
sha256(stream) == stream

\* Mutant of computeHash: a file that cannot be read is hashed as it stands.
computeHashLenient(plat, fs) ==
  LET w == walkInputs(plat, fs, inputPaths(plat), [err |-> FALSE, files |-> <<>>])
      files == sortFiles(plat, w.files)
  IN  IF w.err
        THEN [err |-> TRUE, digest |-> <<>>]
        ELSE [err |-> FALSE, digest |-> Hex(sha256(hashStream(plat, fs, files)))]

\* computeHash(): [err, digest]; err = TRUE means stat, readdir or readFile threw.
computeHash(plat, fs) ==
  LET w == walkInputs(plat, fs, inputPaths(plat), [err |-> FALSE, files |-> <<>>])
      files == sortFiles(plat, w.files)
  IN  IF w.err \/ \E i \in 1..Len(files) : ~fs[files[i]].ok
        THEN [err |-> TRUE, digest |-> <<>>]
        ELSE [err |-> FALSE, digest |-> Hex(sha256(hashStream(plat, fs, files)))]

\* -------------------------------------------------------------------- state

VARIABLES
  platform,    \* process.platform
  tree,        \* the input files and directories: path -> entry
  hashFile,    \* the entry at hashFile (the Cache Record)
  outputFile,  \* the entry at outputFile (the bundle)
  pc,          \* where main is: idle, check, hash, decide, tsc, rolldown, wait, write,
               \* resolved, rejected, exited
  currentHash, \* const currentHash of main
  running,     \* the external processes alive
  log,         \* what this run did to the outside: spawnSync calls, exits, writeFile calls
  outcome,     \* how main ended: none, sourcesMissing, upToDate, built, or the error thrown
  stdout,      \* lines printed with console.log
  stderr,      \* lines printed with console.error
  exitCode,    \* the process's exit code once pc = "exited"
  startHashFile,   \* the Cache Record as it was when this run started
  startOutputFile, \* the bundle as it was when this run started
  probe,       \* the fingerprint of the inputs before and after the last change to them
  runner,      \* env: process.env.npm_execpath; calls: the spawnSync calls of this run;
               \* thrown: the message of the Error runPnpm threw at line 83
  history      \* prev: how the run just before this one ended ("none" if anything
               \* changed in between); builder: what wrote the bundle now on disk

vars == <<platform, tree, hashFile, outputFile, pc, currentHash, running, log,
          outcome, stdout, stderr, exitCode, startHashFile, startOutputFile, probe, history, runner>>

\* res.status of a process killed by a signal (null).
NullStatus == -1

\* The exit statuses drawn for an external process.
Statuses == {0, 1, NullStatus}

Stages == {"tsc", "rolldown"}

Errors == {"enumerate", "cacheRead", "spawn", "status", "cacheWrite"}

\* The whole file system as main sees it.
Fs == (hashFilePath(platform) :> hashFile) @@ (outputFilePath(platform) :> outputFile) @@ tree

\* The byte contents tsconfig.json can take.
Data == {<<65 + i>> : i \in 0..(MaxData - 1)}

\* tsconfig.json ~ "t", rolldown.config.mjs ~ "m"
tsconfigName == <<116>>
rolldownConfigName == <<109>>

\* An input tree: manifest m, lockfile l, and the two source roots, each absent
\* (NoEntry) or a directory holding its configuration file r / a.
MkTree(plat, m, l, r, a) ==
  (manifestPath(plat) :> m) @@ (lockfilePath(plat) :> l)
  @@ (a2uiRendererDir(plat) :> (IF r.kind = "none" THEN NoEntry ELSE DirE(<<tsconfigName>>)))
  @@ (Join(plat, a2uiRendererDir(plat), tsconfigName) :> r)
  @@ (a2uiAppDir(plat) :> (IF a.kind = "none" THEN NoEntry ELSE DirE(<<rolldownConfigName>>)))
  @@ (Join(plat, a2uiAppDir(plat), rolldownConfigName) :> a)

\* The input trees the runs are checked over.
Trees(plat) ==
  { MkTree(plat, m, l, r, a) :
      m \in {NoEntry, FileE(<<65>>), FileE(<<66>>)},
      l \in {FileE(<<65>>), Unreadable(FileE(<<65>>))},
      r \in {NoEntry} \cup {FileE(d) : d \in Data},
      a \in {NoEntry, FileE(<<65>>)} }

\* The bundle rolldown produces from inputs with the given fingerprint: the
\* bundle's bytes are a function of the inputs, here their fingerprint.
BundleOf(digest) == digest

\* A bundle that was shipped with the checkout, and one left half-written.
PrebuiltBundle == FileE(<<112>>)
PartialBundle == FileE(<<>>)

\* ------------------------------------------------------------------ runPnpm
\* process.env.npm_execpath: unset, or a string.
NoExecPath == [set |-> FALSE, value |-> <<>>]
ExecPath(s) == [set |-> TRUE, value |-> s]

\* "pnpm", "pnpm.cmd", and a stand-in for process.execPath: "/n".
pnpmWord == <<112, 110, 112, 109>>
pnpmCmd == <<112, 110, 112, 109, 46, 99, 109, 100>>
execPath == <<47, 110>>

\* Mutant of toLowerCase: the string is taken as it is.
toLowerCaseNone(s) == s

\* String.prototype.toLowerCase
toLowerCase(s) == [i \in 1..Len(s) |-> IF IsUpper(s[i]) THEN s[i] + 32 ELSE s[i]]

\* String.prototype.includes
includes(s, sub) == \E i \in 0..(Len(s) - Len(sub)) : SubSeq(s, i + 1, i + Len(sub)) = sub

\* lines 66-69
isProbablyPnpmExecPath(npmExecPath) ==
  /\ npmExecPath.set
  /\ Len(npmExecPath.value) > 0
  /\ includes(toLowerCase(npmExecPath.value), pnpmWord)

\* lines 71-75
command(plat, npmExecPath) ==
  IF isProbablyPnpmExecPath(npmExecPath) THEN execPath
  ELSE IF plat = "win32" THEN pnpmCmd
  ELSE pnpmWord

\* line 76
fullArgs(npmExecPath, args) ==
  IF isProbablyPnpmExecPath(npmExecPath) THEN <<npmExecPath.value>> \o args ELSE args

\* The arguments main passes to runPnpm (lines 102-103):
\* -s exec tsc -p <tsconfig> and -s exec rolldown -c <config>.
stageArgs(plat, stage) ==
  IF stage = "tsc"
    THEN << <<45, 115>>, <<101, 120, 101, 99>>, <<116, 115, 99>>, <<45, 112>>,
            Join(plat, a2uiRendererDir(plat), tsconfigName) >>
    ELSE << <<45, 115>>, <<101, 120, 101, 99>>, <<114, 111, 108, 108, 100, 111, 119, 110>>, <<45, 99>>,
            Join(plat, a2uiAppDir(plat), rolldownConfigName) >>

RECURSIVE join(_, _)
\* Array.prototype.join
join(args, sep) ==
  IF args = <<>> THEN <<>>
  ELSE IF Len(args) = 1 THEN args[1]
  ELSE args[1] \o sep \o join(Tail(args), sep)

\* "Command failed: pnpm "
commandFailedPrefix ==
  <<67, 111, 109, 109, 97, 110, 100, 32, 102, 97, 105, 108, 101, 100, 58, 32, 112, 110, 112, 109, 32>>

\* `Command failed: pnpm ${args.join(" ")}` (line 83)
commandFailed(args) == commandFailedPrefix \o join(args, <<32>>)

\* -------------------------------------------------------------- initial state
\* Nothing has been changed and compared yet.
NoProbe == [op |-> "none", before |-> [err |-> FALSE, digest |-> <<>>],
            after |-> [err |-> FALSE, digest |-> <<>>],
            walked |-> [err |-> FALSE, files |-> <<>>]]

NoRun ==
  /\ runner.calls = <<>>
  /\ runner.thrown = <<>>
  /\ currentHash = <<>>
  /\ running = {}
  /\ log = <<>>
  /\ outcome = "none"
  /\ stdout = <<>>
  /\ stderr = <<>>
  /\ exitCode = 0

Init ==
  /\ platform \in Platforms
  /\ tree \in Trees(platform)
  /\ hashFile \in {NoEntry, FileE(<<120>>), Unreadable(FileE(<<120>>))}
  /\ outputFile \in {NoEntry, PrebuiltBundle}
  /\ pc = "idle"
  /\ startHashFile = hashFile
  /\ startOutputFile = outputFile
  /\ probe = NoProbe
  /\ history = [prev |-> "none", builder |-> IF outputFile = NoEntry THEN "none" ELSE "prebuilt"]
  /\ runner \in {[env |-> NoExecPath, calls |-> <<>>, thrown |-> <<>>]}
  /\ NoRun

\* ------------------------------------------------------------------ actions

Spawned(stage, ok) == [ev |-> "spawn", stage |-> stage, ok |-> ok, status |-> 0]
Exited(stage, status) == [ev |-> "exit", stage |-> stage, ok |-> (status = 0), status |-> status]
Wrote(ok) == [ev |-> "write", stage |-> "none", ok |-> ok, status |-> 0]

\* main's promise resolves with outcome o.
Resolve(o) == pc' = "resolved" /\ outcome' = o

\* Something threw: main's promise rejects with error e.
Reject(e) == pc' = "rejected" /\ outcome' = e

\* How a run ended, as far as the next run is concerned: it failed in a
\* pipeline stage, it built and recorded, it skipped as up to date, or other.
EndClass(o) ==
  IF o \in {"spawn", "status"} THEN "stageFailed"
  ELSE IF o \in {"built", "upToDate"} THEN o
  ELSE "none"

\* The process is started: a fresh run of main, with nothing carried over
\* from an earlier run but the file system.
StartRun ==
  /\ pc \in {"idle", "exited"}
  /\ pc' = "check"
  /\ currentHash' = <<>>
  /\ running' = {}
  /\ log' = <<>>
  /\ outcome' = "none"
  /\ stdout' = <<>>
  /\ stderr' = <<>>
  /\ exitCode' = 0
  /\ startHashFile' = hashFile
  /\ startOutputFile' = outputFile
  /\ history' = [history EXCEPT !.prev = IF pc = "exited" THEN EndClass(outcome) ELSE "none"]
  /\ runner' = [runner EXCEPT !.calls = <<>>, !.thrown = <<>>]
  /\ UNCHANGED <<platform, tree, hashFile, outputFile, probe>>

\* Mutant of sourcesMissing: && written for ||.
sourcesMissingBoth(fs, plat) == ~exists(fs, a2uiRendererDir(plat)) /\ ~exists(fs, a2uiAppDir(plat))

\* !(await exists(a2uiRendererDir)) || !(await exists(a2uiAppDir))
sourcesMissing(fs, plat) == ~exists(fs, a2uiRendererDir(plat)) \/ ~exists(fs, a2uiAppDir(plat))

\* main, lines 88-91: the precondition gate.
CheckSources ==
  /\ pc = "check"
  /\ IF sourcesMissing(Fs, platform)
       THEN /\ stdout' = Append(stdout, "A2UI sources missing; keeping prebuilt bundle.")
            /\ Resolve("sourcesMissing")
       ELSE /\ pc' = "hash"
            /\ UNCHANGED <<stdout, outcome>>
  /\ UNCHANGED <<platform, tree, hashFile, outputFile, currentHash, running, log,
                 stderr, exitCode, startHashFile, startOutputFile, probe, history, runner>>

\* main, line 93: const currentHash = await computeHash()
ComputeHash ==
  /\ pc = "hash"
  /\ LET r == computeHash(platform, Fs)
     IN  IF r.err
           THEN Reject("enumerate") /\ UNCHANGED currentHash
           ELSE pc' = "decide" /\ currentHash' = r.digest /\ UNCHANGED outcome
  /\ UNCHANGED <<platform, tree, hashFile, outputFile, running, log,
                 stdout, stderr, exitCode, startHashFile, startOutputFile, probe, history, runner>>

\* Mutant of upToDate: the bundle's existence is not checked.
upToDateHashOnly(previousHash, current, fs, plat) == previousHash = current

\* previousHash === currentHash && (await exists(outputFile))
upToDate(previousHash, current, fs, plat) ==
  previousHash = current /\ exists(fs, outputFilePath(plat))

\* main, lines 94-100: read the Cache Record and decide.
Decide ==
  /\ pc = "decide"
  /\ IF exists(Fs, hashFilePath(platform))
       THEN IF ~hashFile.ok
              THEN Reject("cacheRead") /\ UNCHANGED stdout
              ELSE IF upToDate(trim(hashFile.data), currentHash, Fs, platform)
                     THEN /\ stdout' = Append(stdout, "A2UI bundle up to date; skipping.")
                          /\ Resolve("upToDate")
                     ELSE pc' = "tsc" /\ UNCHANGED <<stdout, outcome>>
       ELSE pc' = "tsc" /\ UNCHANGED <<stdout, outcome>>
  /\ UNCHANGED <<platform, tree, hashFile, outputFile, currentHash, running, log,
                 stderr, exitCode, startHashFile, startOutputFile, probe, history, runner>>

\* Mutant of AfterStage: the rolldown call is left out.
AfterStageSkip(stage) == "write"

\* Where main goes when runPnpm returns (lines 102-105).
AfterStage(stage) == IF stage = "tsc" THEN "rolldown" ELSE "write"

\* Mutant of WaitPc: spawn without waiting, main goes straight on.
WaitPcAsync(stage) == AfterStage(stage)

\* Where main is while spawnSync blocks until the stage has exited.
WaitPc(stage) == IF stage = "tsc" THEN "tscWait" ELSE "rolldownWait"

\* runPnpm, line 78, first half: spawnSync starts the process, or fails to
\* (res.error, thrown at line 80).
runPnpmSpawn(stage) ==
  /\ pc = stage
  /\ \E started \in BOOLEAN :
       /\ log' = Append(log, Spawned(stage, started))
       /\ IF started
            THEN pc' = WaitPc(stage) /\ running' = running \cup {stage} /\ UNCHANGED outcome
            ELSE Reject("spawn") /\ UNCHANGED running
  /\ runner' = [runner EXCEPT !.calls = Append(@, [command |-> command(platform, runner.env),
                                                    args |-> fullArgs(runner.env, stageArgs(platform, stage))])]
  /\ UNCHANGED <<platform, tree, hashFile, outputFile, currentHash,
                 stdout, stderr, exitCode, startHashFile, startOutputFile, probe, history>>

\* Mutant of statusFailed: res.status > 0, which lets a null status pass.
statusFailedSloppy(status) == status > 0

\* res.status !== 0 (line 82)
statusFailed(status) == status # 0

\* What the exiting stage leaves at outputFile: rolldown writes the bundle when it
\* succeeds; when it fails it may have written nothing, part of it or all of it.
ArtifactAfter(stage, status) ==
  IF stage # "rolldown" THEN {outputFile}
  ELSE IF status = 0 THEN {FileE(BundleOf(currentHash))}
  ELSE {outputFile, PartialBundle, FileE(BundleOf(currentHash))}

\* Who wrote the bundle that is on disk once the stage has exited.
BuilderAfter(stage, status, out) ==
  IF stage # "rolldown" \/ out = outputFile THEN
    (IF stage = "rolldown" /\ status = 0 THEN "ok" ELSE history.builder)
  ELSE IF status = 0 THEN "ok" ELSE "failed"

\* runPnpm, lines 78-84, second half: spawnSync returns when the process has exited.
runPnpmExit(stage) ==
  /\ pc = WaitPc(stage)
  /\ stage \in running
  /\ \E status \in Statuses :
       /\ running' = running \ {stage}
       /\ log' = Append(log, Exited(stage, status))
       /\ outputFile' \in ArtifactAfter(stage, status)
       /\ IF statusFailed(status)
            THEN Reject("status")
                 /\ runner' = [runner EXCEPT !.thrown = commandFailed(stageArgs(platform, stage))]
            ELSE pc' = AfterStage(stage) /\ UNCHANGED <<outcome, runner>>
       /\ history' = [history EXCEPT !.builder = BuilderAfter(stage, status, outputFile')]
  /\ UNCHANGED <<platform, tree, hashFile, currentHash,
                 stdout, stderr, exitCode, startHashFile, startOutputFile, probe>>

\* Mutant of cacheText: the fingerprint is written behind a tag, "s:".
cacheTextTagged(digest) == <<115, 58>> \o Append(digest, 10)

\* `${currentHash}\n`
cacheText(digest) == Append(digest, 10)

\* main, line 105: await fs.writeFile(hashFile, ...).  A failed write leaves the
\* file as it was (open failed) or truncated (the write itself failed).
WriteHash ==
  /\ pc = "write"
  /\ \E ok \in BOOLEAN :
       /\ log' = Append(log, Wrote(ok))
       /\ IF ok
            THEN hashFile' = FileE(cacheText(currentHash)) /\ Resolve("built")
            ELSE hashFile' \in {hashFile, FileE(<<>>)} /\ Reject("cacheWrite")
  /\ UNCHANGED <<platform, tree, outputFile, currentHash, running,
                 stdout, stderr, exitCode, startHashFile, startOutputFile, probe, history, runner>>

\* main() resolved: nothing is left to do and node exits with code 0.
ExitClean ==
  /\ pc = "resolved"
  /\ pc' = "exited"
  /\ exitCode' = 0
  /\ UNCHANGED <<platform, tree, hashFile, outputFile, currentHash, running, log,
                 outcome, stdout, stderr, startHashFile, startOutputFile, probe, history, runner>>

\* Mutant of Catch: the diagnostic is printed but process.exit(1) is left out.
CatchNoExit ==
  /\ pc = "rejected"
  /\ stderr' = stderr \o <<"A2UI bundling failed. Re-run with: pnpm canvas:a2ui:bundle",
                           "If this persists, verify pnpm deps and try again.",
                           outcome>>
  /\ pc' = "exited"
  /\ UNCHANGED <<platform, tree, hashFile, outputFile, currentHash, running, log,
                 outcome, stdout, exitCode, startHashFile, startOutputFile, probe, history, runner>>

\* main().catch, lines 109-114: print the diagnostic, then process.exit(1).
Catch ==
  /\ pc = "rejected"
  /\ stderr' = stderr \o <<"A2UI bundling failed. Re-run with: pnpm canvas:a2ui:bundle",
                           "If this persists, verify pnpm deps and try again.",
                           outcome>>
  /\ exitCode' = 1
  /\ pc' = "exited"
  /\ UNCHANGED <<platform, tree, hashFile, outputFile, currentHash, running, log,
                 outcome, stdout, startHashFile, startOutputFile, probe, history, runner>>

\* Between runs the per-run observations are dropped.
Forget ==
  /\ pc' = "idle"
  /\ runner' = [runner EXCEPT !.calls = <<>>, !.thrown = <<>>]
  /\ currentHash' = <<>>
  /\ running' = {}
  /\ log' = <<>>
  /\ outcome' = "none"
  /\ stdout' = <<>>
  /\ stderr' = <<>>
  /\ exitCode' = 0

\* The paths at which two trees differ, counted.
Changed(t, u) == Cardinality({p \in DOMAIN t : t[p] # u[p]})

\* Between runs somebody edits, adds or removes input files.
EditInputs ==
  /\ pc \in {"idle", "exited"}
  /\ tree' \in {t \in Trees(platform) : Changed(tree, t) \in 1..2}
  /\ Forget
  /\ startHashFile' = hashFile
  /\ startOutputFile' = outputFile
  /\ history' = [history EXCEPT !.prev = "none"]
  /\ UNCHANGED <<platform, hashFile, outputFile, probe>>

\* Between runs the bundle is removed (a clean checkout).
RemoveArtifact ==
  /\ pc \in {"idle", "exited"}
  /\ outputFile # NoEntry
  /\ outputFile' = NoEntry
  /\ Forget
  /\ startHashFile' = hashFile
  /\ startOutputFile' = NoEntry
  /\ history' = [prev |-> "none", builder |-> "none"]
  /\ UNCHANGED <<platform, tree, hashFile, probe>>

\* Between runs the Cache Record is removed or made unreadable.
DamageCache ==
  /\ pc \in {"idle", "exited"}
  /\ hashFile.kind # "none"
  /\ hashFile' \in {NoEntry, Unreadable(hashFile)} \ {hashFile}
  /\ Forget
  /\ startHashFile' = hashFile'
  /\ startOutputFile' = outputFile
  /\ history' = [history EXCEPT !.prev = "none"]
  /\ UNCHANGED <<platform, tree, outputFile, probe>>

Next ==
  \/ StartRun
  \/ CheckSources
  \/ ComputeHash
  \/ Decide
  \/ \E stage \in Stages : runPnpmSpawn(stage)
  \/ \E stage \in Stages : runPnpmExit(stage)
  \/ WriteHash
  \/ ExitClean
  \/ Catch
  \/ EditInputs
  \/ RemoveArtifact
  \/ DamageCache

Spec == Init /\ [][Next]_vars

\* ------------------------------------------------ the fingerprint on its own
\* computeHash applied to a file set before and after one change to it: the
\* order readdir reports, one byte of one file, the name of one file.

\* The names a file of the renderer directory can have: "a", U+00E9 ("e" with
\* acute, composed) and U+0065 U+0301 (the same letter, decomposed).
HashNames == {<<97>>, <<233>>, <<101, 769>>}

\* The bytes a file's contents are made of: 0x00 and "A".
HashBytes == {0, 65}

\* The contents a file can have: every byte string up to MaxLen bytes.
HashData == UNION {[1..n -> HashBytes] : n \in 0..MaxLen}

\* The sequences of k distinct names.
Listings(k) == {l \in [1..k -> HashNames] : \A i \in 1..k : \A j \in 1..k : l[i] = l[j] => i = j}

\* The renderer directory holding the files named in listing (in readdir's
\* order) with contents data[i], beside a manifest, a lockfile and an app directory.
HashTree(plat, listing, data) ==
  [p \in {Join(plat, a2uiRendererDir(plat), n) : n \in HashNames} |->
     IF \E i \in 1..Len(listing) : p = Join(plat, a2uiRendererDir(plat), listing[i])
       THEN FileE(data[CHOOSE i \in 1..Len(listing) : p = Join(plat, a2uiRendererDir(plat), listing[i])])
       ELSE NoEntry]
  @@ (a2uiRendererDir(plat) :> DirE(listing))
  @@ (manifestPath(plat) :> FileE(<<65>>)) @@ (lockfilePath(plat) :> FileE(<<65>>))
  @@ (a2uiAppDir(plat) :> DirE(<<rolldownConfigName>>))
  @@ (Join(plat, a2uiAppDir(plat), rolldownConfigName) :> FileE(<<65>>))

HashTrees(plat) ==
  UNION { {HashTree(plat, l, d) : l \in Listings(k), d \in [1..k -> HashData]} : k \in 0..MaxFiles }

InitHash ==
  /\ platform \in Platforms
  /\ tree \in HashTrees(platform)
  /\ hashFile = NoEntry
  /\ outputFile = NoEntry
  /\ pc = "idle"
  /\ startHashFile = NoEntry
  /\ startOutputFile = NoEntry
  /\ probe = NoProbe
  /\ history = [prev |-> "none", builder |-> "none"]
  /\ runner = [env |-> NoExecPath, calls |-> <<>>, thrown |-> <<>>]
  /\ NoRun

\* computeHash before and after the change from tree to t, one change per file set.
Probe(op, t) ==
  /\ probe.op = "none"
  /\ tree' = t
  /\ probe' = [op |-> op, before |-> computeHash(platform, tree), after |-> computeHash(platform, t),
                walked |-> walkInputs(platform, t, inputPaths(platform), [err |-> FALSE, files |-> <<>>])]
  /\ UNCHANGED <<platform, hashFile, outputFile, pc, currentHash, running, log,
                 outcome, stdout, stderr, exitCode, startHashFile, startOutputFile, history, runner>>

\* The same files, reported by readdir in another order.
Reorder ==
  LET d == a2uiRendererDir(platform)
      l == tree[d].list
  IN  \E m \in [1..Len(l) -> 1..Len(l)] :
        /\ \A i \in 1..Len(l) : \A j \in 1..Len(l) : m[i] = m[j] => i = j
        /\ \E i \in 1..Len(l) : m[i] # i
        /\ Probe("reorder", [tree EXCEPT ![d].list = [i \in 1..Len(l) |-> l[m[i]]]])

\* One byte of one file is changed.
EditByte ==
  \E p \in DOMAIN tree :
    /\ tree[p].kind = "file"
    /\ \E i \in 1..Len(tree[p].data) : \E b \in HashBytes \ {tree[p].data[i]} :
         Probe("byte", [tree EXCEPT ![p].data[i] = b])

\* One file of the renderer directory is renamed to a name not in use.
Rename ==
  LET d == a2uiRendererDir(platform)
      l == tree[d].list
  IN  \E i \in 1..Len(l) : \E n \in HashNames \ {l[j] : j \in 1..Len(l)} :
        Probe("rename", [tree EXCEPT ![d].list[i] = n,
                                     ![Join(platform, d, n)] = tree[Join(platform, d, l[i])],
                                     ![Join(platform, d, l[i])] = NoEntry])

NextHash ==
  \/ Reorder
  \/ EditByte
  \/ Rename

SpecHash == InitHash /\ [][NextHash]_vars

\* ------------------------------------- enumeration and framing of file sets
\* computeHash and walk over directory trees with nested and empty directories,
\* and over file sets whose contents hold 0x00 bytes.

\* How deep directories nest below the renderer directory.
MaxDepth == 2

fileName == <<102>>
dirName == <<100>>

RECURSIVE DirTrees(_, _, _)
\* The trees rooted at directory dir: it is empty or holds a file "f", and down
\* to the given depth a directory "d", in either readdir order.
DirTrees(plat, dir, depth) ==
  LET f == Join(plat, dir, fileName)
      d == Join(plat, dir, dirName)
      flat == { (dir :> DirE(<<>>)),
                (dir :> DirE(<<fileName>>)) @@ (f :> FileE(<<65>>)) }
  IN  IF depth = 0 THEN flat
      ELSE flat \cup UNION {
             { (dir :> DirE(<<dirName>>)) @@ sub,
               (dir :> DirE(<<fileName, dirName>>)) @@ (f :> FileE(<<65>>)) @@ sub,
               (dir :> DirE(<<dirName, fileName>>)) @@ (f :> FileE(<<65>>)) @@ sub }
             : sub \in DirTrees(plat, d, depth - 1) }

\* Manifest and lockfile are single-file roots; the renderer directory nests;
\* the app directory is empty or holds one file.
WalkTrees(plat) ==
  { (manifestPath(plat) :> FileE(<<65>>)) @@ (lockfilePath(plat) :> FileE(<<65>>)) @@ r @@ a :
      r \in DirTrees(plat, a2uiRendererDir(plat), MaxDepth),
      a \in DirTrees(plat, a2uiAppDir(plat), 0) }

\* The names and contents of the files of the renderer directory in the file
\* sets compared: "a" and "b"; empty, "A", or 0x00, the stream's path of "b", 0x00.
FrameNames == <<<<97>>, <<98>>>>
FrameData(plat) ==
  { <<>>, <<65>>,
    <<0>> \o Utf8(normalize(plat, relative(repoRoot(plat), Join(plat, a2uiRendererDir(plat), <<98>>)))) \o <<0>> }

\* The renderer directory holding the files named in N with contents c[n].
FrameTree(plat, N, c) ==
  [p \in {Join(plat, a2uiRendererDir(plat), n) : n \in N} |->
     FileE(c[CHOOSE n \in N : p = Join(plat, a2uiRendererDir(plat), n)])]
  @@ (a2uiRendererDir(plat) :> DirE(SelectSeq(FrameNames, LAMBDA n : n \in N)))
  @@ (manifestPath(plat) :> FileE(<<65>>)) @@ (lockfilePath(plat) :> FileE(<<65>>))
  @@ (a2uiAppDir(plat) :> DirE(<<rolldownConfigName>>))
  @@ (Join(plat, a2uiAppDir(plat), rolldownConfigName) :> FileE(<<65>>))

FrameTrees(plat) ==
  UNION { {FrameTree(plat, N, c) : c \in [N -> FrameData(plat)]} :
          N \in SUBSET {FrameNames[i] : i \in 1..Len(FrameNames)} }

InitTree ==
  /\ platform \in Platforms
  /\ tree \in WalkTrees(platform) \cup FrameTrees(platform)
  /\ hashFile = NoEntry
  /\ outputFile = NoEntry
  /\ pc = "idle"
  /\ startHashFile = NoEntry
  /\ startOutputFile = NoEntry
  /\ probe = NoProbe
  /\ history = [prev |-> "none", builder |-> "none"]
  /\ runner = [env |-> NoExecPath, calls |-> <<>>, thrown |-> <<>>]
  /\ NoRun

\* The inputs are enumerated and hashed as they are.
Enumerate == Probe("walk", tree)

\* The file set is replaced by another one and hashed again.
Replace ==
  /\ tree \in FrameTrees(platform)
  /\ \E t \in FrameTrees(platform) \ {tree} : Probe("replace", t)

NextTree ==
  \/ Enumerate
  \/ Replace

SpecTree == InitTree /\ [][NextTree]_vars

\* ------------------------------------------------ main under a package manager
\* Runs of main over one complete input tree, npm_execpath varying.

\* The values of npm_execpath: unset, "", "pnpm", "/PnPm.c", "npm", "pn/pm".
ExecPaths ==
  { NoExecPath, ExecPath(<<>>), ExecPath(<<112, 110, 112, 109>>),
    ExecPath(<<47, 80, 110, 80, 109, 46, 99>>), ExecPath(<<110, 112, 109>>),
    ExecPath(<<112, 110, 47, 112, 109>>) }

InitRunner ==
  /\ platform \in Platforms
  /\ tree = MkTree(platform, FileE(<<65>>), FileE(<<65>>), FileE(<<65>>), FileE(<<65>>))
  /\ hashFile = NoEntry
  /\ outputFile = NoEntry
  /\ pc = "idle"
  /\ startHashFile = hashFile
  /\ startOutputFile = outputFile
  /\ probe = NoProbe
  /\ history = [prev |-> "none", builder |-> "none"]
  /\ runner \in {[env |-> e, calls |-> <<>>, thrown |-> <<>>] : e \in ExecPaths}
  /\ NoRun

NextRunner ==
  \/ StartRun
  \/ CheckSources
  \/ ComputeHash
  \/ Decide
  \/ \E stage \in Stages : runPnpmSpawn(stage)
  \/ \E stage \in Stages : runPnpmExit(stage)
  \/ WriteHash
  \/ ExitClean
  \/ Catch

SpecRunner == InitRunner /\ [][NextRunner]_vars

\* ------------------------------------------------------- vocabulary of claims

InRun == pc # "idle"

\* The fingerprint of the inputs as they are now.
Fresh == computeHash(platform, tree)

RendererPresent == Stat(tree, a2uiRendererDir(platform)).kind # "none"
AppPresent == Stat(tree, a2uiAppDir(platform)).kind # "none"
SourcesPresent == RendererPresent /\ AppPresent

\* s is d with white space around it.
TrimsTo(s, d) ==
  \E i \in 1..(Len(s) + 1) : \E j \in 0..Len(s) :
    /\ SubSeq(s, i, j) = d
    /\ \A k \in 1..Len(s) : (k < i \/ k > j) => IsWhite(s[k])

\* The Cache Record this run started with holds fingerprint d.
StoredIs(d) == startHashFile.kind # "none" /\ startHashFile.ok /\ TrimsTo(startHashFile.data, d)

\* The Cache Record this run started with is readable and holds something else.
StoredDiffers(d) == startHashFile.kind # "none" /\ startHashFile.ok /\ ~TrimsTo(startHashFile.data, d)

\* The event the pipeline has at position i: tsc is spawned and exits, rolldown
\* is spawned and exits, the Cache Record is written.
Slot(i, e) ==
  \/ i = 1 /\ e.ev = "spawn" /\ e.stage = "tsc"
  \/ i = 2 /\ e.ev = "exit" /\ e.stage = "tsc"
  \/ i = 3 /\ e.ev = "spawn" /\ e.stage = "rolldown"
  \/ i = 4 /\ e.ev = "exit" /\ e.stage = "rolldown"
  \/ i = 5 /\ e.ev = "write"

\* Each event is in its place and follows a success.
InOrder(l) == \A i \in 1..Len(l) : Slot(i, l[i]) /\ (i > 1 => l[i - 1].ok)

\* The pipeline was entered and ran to its end or to its first failure.
Complete(l) == l # <<>> /\ (Len(l) = 5 \/ ~l[Len(l)].ok)

StageFailed == \E i \in 1..Len(log) : log[i].ev \in {"spawn", "exit"} /\ ~log[i].ok

\* ------------------------------------------------------------------- claims

\* C1: in a run in which a pipeline stage failed (spawn error, or an exit status
\* that is not 0), the Cache Record is never written: no writeFile call is made
\* and the Cache Record is what it was when the run started.
C1_NoWriteOnFailure ==
  StageFailed =>
    /\ hashFile = startHashFile
    /\ \A i \in 1..Len(log) : log[i].ev # "write"

\* A run ended after rolldown exited non-zero, with a Cache Record on disk.
C1_Witness ==
  /\ pc = "exited"
  /\ Len(log) = 4
  /\ log[4].ev = "exit" /\ log[4].stage = "rolldown" /\ log[4].status # 0
  /\ hashFile.kind = "file"

\* C2: with both source roots present and the stored fingerprint different from
\* the fresh one (or no Cache Record), the run enters the pipeline: tsc first,
\* rolldown after tsc succeeded, each step only after the one before succeeded;
\* the Cache Record changes only by the one write that follows two successful
\* stages, a successful write stores the fresh fingerprint, and nothing follows it.
C2_RebuildOnChanged ==
  (InRun /\ SourcesPresent /\ ~Fresh.err
     /\ (startHashFile.kind = "none" \/ StoredDiffers(Fresh.digest)))
  =>
    /\ InOrder(log)
    /\ pc = "exited" => Complete(log)
    /\ hashFile # startHashFile => Len(log) = 5
    /\ (Len(log) = 5 /\ log[5].ok) => hashFile = FileE(cacheText(Fresh.digest))
    /\ Len(log) = 5 => pc \in {"resolved", "rejected", "exited"} /\ running = {}

\* A run over changed inputs ran both stages and replaced an older Cache Record.
C2_Witness ==
  /\ pc = "exited"
  /\ SourcesPresent /\ ~Fresh.err
  /\ StoredDiffers(Fresh.digest)
  /\ Len(log) = 5
  /\ log[5].ok
  /\ hashFile = FileE(cacheText(Fresh.digest))

\* C3: with both source roots present, the stored fingerprint (trimmed) equal to
\* the fresh one and the bundle on disk, the run ends successfully and starts no
\* external process.
C3_SkipOnUnchanged ==
  (InRun /\ SourcesPresent /\ ~Fresh.err /\ StoredIs(Fresh.digest)
     /\ startOutputFile.kind # "none")
  =>
    /\ log = <<>>
    /\ running = {}
    /\ pc \in {"check", "hash", "decide", "resolved", "exited"}
    /\ outcome \in {"none", "upToDate"}
    /\ pc = "exited" => (exitCode = 0 /\ outcome = "upToDate")

\* A run skipped on a Cache Record that holds the fingerprint and a newline.
C3_Witness ==
  /\ pc = "exited"
  /\ SourcesPresent /\ ~Fresh.err
  /\ StoredIs(Fresh.digest)
  /\ startHashFile.data # Fresh.digest
  /\ startOutputFile.kind # "none"
  /\ outcome = "upToDate"

\* C4: if the renderer directory or the app directory does not exist, the run
\* ends successfully, starts no process, and leaves the Cache Record and the
\* bundle as they were, whatever the state of the other files.
C4_SkipOnMissingRoots ==
  (InRun /\ ~SourcesPresent)
  =>
    /\ log = <<>>
    /\ running = {}
    /\ hashFile = startHashFile
    /\ outputFile = startOutputFile
    /\ pc \in {"check", "resolved", "exited"}
    /\ outcome \in {"none", "sourcesMissing"}
    /\ pc = "exited" => exitCode = 0

\* A run skipped with only the app directory missing, although the manifest is
\* missing too and the Cache Record cannot be read.
C4_Witness ==
  /\ pc = "exited"
  /\ RendererPresent /\ ~AppPresent
  /\ Stat(tree, manifestPath(platform)).kind = "none"
  /\ hashFile.kind # "none" /\ ~hashFile.ok
  /\ exitCode = 0

\* C5: with both source roots present and the stored fingerprint equal to the
\* fresh one but no bundle on disk, the run does not skip: it enters the
\* pipeline, tsc first and rolldown once tsc has succeeded.
C5_RebuildOnMissingArtifact ==
  (InRun /\ SourcesPresent /\ ~Fresh.err /\ StoredIs(Fresh.digest)
     /\ startOutputFile.kind = "none")
  =>
    /\ outcome # "upToDate"
    /\ pc = "exited" =>
         /\ Complete(log)
         /\ log[1] = Spawned("tsc", log[1].ok)
         /\ (Len(log) >= 2 /\ log[2].ok) => (Len(log) >= 3 /\ log[3].ev = "spawn" /\ log[3].stage = "rolldown")

\* A run rebuilt on a matching fingerprint because the bundle was gone.
C5_Witness ==
  /\ pc = "exited"
  /\ SourcesPresent /\ ~Fresh.err
  /\ StoredIs(Fresh.digest)
  /\ startOutputFile.kind = "none"
  /\ Len(log) >= 4
  /\ log[3].stage = "rolldown"

\* C6: at most one external process is alive at a time; rolldown is spawned
\* only right after tsc exited with status 0, and nothing is spawned after a
\* stage failed.
C6_Sequential ==
  /\ Cardinality(running) <= 1
  /\ \A i \in 1..Len(log) :
       (log[i].ev = "spawn" /\ log[i].stage = "rolldown")
         => (i > 1 /\ log[i - 1] = Exited("tsc", 0) /\ "tsc" \notin running)
  /\ \A i \in 1..Len(log) : \A j \in 1..Len(log) :
       (i < j /\ log[i].ev \in {"spawn", "exit"} /\ ~log[i].ok) => log[j].ev # "spawn"

\* rolldown is running.
C6_Witness == "rolldown" \in running /\ pc = "rolldownWait"

\* How a run can end well: sources absent, up to date, or built and recorded.
CleanEnd ==
  \/ ~SourcesPresent /\ log = <<>>
  \/ /\ SourcesPresent /\ ~Fresh.err /\ StoredIs(Fresh.digest)
     /\ startOutputFile.kind # "none" /\ log = <<>>
  \/ Len(log) = 5 /\ \A i \in 1..5 : log[i].ok

\* How a run can end badly: enumeration or read failed, the Cache Record could
\* not be read, a spawn failed, a stage exited non-zero, the write failed.
FatalEnd ==
  \/ SourcesPresent /\ Fresh.err /\ log = <<>>
  \/ SourcesPresent /\ ~Fresh.err /\ startHashFile.kind # "none" /\ ~startHashFile.ok /\ log = <<>>
  \/ log # <<>> /\ ~log[Len(log)].ok

\* C7: a run exits with code 0 exactly when it ended in a clean skip or in a
\* successful pipeline followed by the cache write, and with code 1 exactly when
\* a step failed; with code 1 the diagnostic and its hint have been printed.
C7_ExitCodes ==
  pc = "exited" =>
    /\ exitCode \in {0, 1}
    /\ exitCode = 0 <=> CleanEnd
    /\ exitCode = 1 <=> FatalEnd
    /\ exitCode = 1 =>
         /\ Len(stderr) = 3
         /\ stderr[1] = "A2UI bundling failed. Re-run with: pnpm canvas:a2ui:bundle"
         /\ stderr[3] = outcome
    /\ exitCode = 0 => stderr = <<>>

\* A run ended with code 1 because the final cache write failed.
C7_Witness ==
  /\ pc = "exited"
  /\ exitCode = 1
  /\ Len(log) = 5
  /\ ~log[5].ok

\* C10 (as claimed): a Cache Record that exists but cannot be read is treated
\* as absent, so the run goes on to the pipeline and does not end in a fatal
\* cache-read error.
C10_UnreadableIsAbsent ==
  (pc = "exited" /\ SourcesPresent /\ ~Fresh.err
     /\ startHashFile.kind # "none" /\ ~startHashFile.ok)
  => (log # <<>> /\ outcome # "cacheRead")

\* C8 (as claimed): for a fixed set of files the digest does not depend on the
\* order in which readdir reported them.
C8_OrderIndependent == probe.op = "reorder" => probe.after = probe.before

\* C9: with the hash injective on its input, changing one byte of one file, or
\* renaming one file to a path not in the file set, changes the digest.
C9_Sensitive ==
  probe.op \in {"byte", "rename"} =>
    /\ ~probe.before.err /\ ~probe.after.err
    /\ probe.after.digest # probe.before.digest

\* One of two files was renamed and the fingerprint was taken before and after.
C9_Witness ==
  /\ probe.op = "rename"
  /\ Len(tree[a2uiRendererDir(platform)].list) = 2
  /\ ~probe.after.err

\* C11 (as claimed): the run that directly follows a run that failed in a
\* pipeline stage, over unchanged inputs, does not skip as up to date: it
\* enters the pipeline again, tsc first.
C11_RetryAfterFailure ==
  (InRun /\ history.prev = "stageFailed")
  =>
    /\ outcome # "upToDate"
    /\ pc = "exited" => (log # <<>> /\ log[1].ev = "spawn" /\ log[1].stage = "tsc")

\* C12: the run that directly follows a run that built and recorded the
\* fingerprint (or one that skipped after it), over unchanged inputs, reads back
\* the fingerprint it recomputes, starts no process, skips, and leaves the
\* Cache Record as it was.
C12_RoundTrip ==
  (InRun /\ history.prev \in {"built", "upToDate"})
  =>
    /\ SourcesPresent /\ ~Fresh.err
    /\ StoredIs(Fresh.digest)
    /\ log = <<>>
    /\ running = {}
    /\ hashFile = startHashFile
    /\ outcome \in {"none", "upToDate"}
    /\ pc \in {"check", "hash", "decide", "resolved", "exited"}
    /\ pc = "exited" => (outcome = "upToDate" /\ exitCode = 0)

\* A run skipped right after a run that skipped, on a record a build wrote.
C12_Witness ==
  /\ pc = "exited"
  /\ history.prev = "upToDate"
  /\ outcome = "upToDate"
  /\ hashFile.data = Append(Fresh.digest, 10)
  /\ history.builder = "ok"

\* Some entry of the input tree is missing or cannot be read; with both source
\* roots present every entry of the tree is one the enumeration visits.
InputFault == \E p \in DOMAIN tree : tree[p].kind = "none" \/ ~tree[p].ok

\* C13: with both source roots present, a stat, readdir or readFile failure
\* anywhere in the inputs (a missing manifest, an unreadable lockfile) makes the
\* run fatal: no fingerprint is produced or compared, no process is started, the
\* Cache Record is not written, and the run exits with code 1.
C13_EnumerationFatal ==
  (InRun /\ SourcesPresent /\ InputFault)
  =>
    /\ currentHash = <<>>
    /\ log = <<>>
    /\ running = {}
    /\ hashFile = startHashFile
    /\ outcome \in {"none", "enumerate"}
    /\ pc \in {"check", "hash", "rejected", "exited"}
    /\ pc = "exited" => (outcome = "enumerate" /\ exitCode = 1 /\ stdout = <<>>)

\* A run over a tree without the manifest ended fatally.
C13_Witness ==
  /\ pc = "exited"
  /\ SourcesPresent
  /\ Stat(tree, manifestPath(platform)).kind = "none"
  /\ Stat(tree, lockfilePath(platform)).ok
  /\ outcome = "enumerate"
  /\ exitCode = 1

\* C14 (as claimed): whenever a run ends in the up-to-date skip, the bundle on
\* disk was written by a rolldown stage that exited 0, in a run over inputs with
\* the fingerprint the inputs have now.
C14_NoFalseUnchanged ==
  outcome = "upToDate"
  =>
    /\ history.builder = "ok"
    /\ outputFile = FileE(BundleOf(Fresh.digest))

\* The File Set: the paths of the tree that are files.
FileSet(fs) == {p \in DOMAIN fs : fs[p].kind = "file"}

\* The normalized path of p relative to the repository root.
RelName(plat, p) == normalize(plat, relative(repoRoot(plat), p))

\* The files of F that no file of F precedes by relative path.
Least(plat, F) == {x \in F : \A y \in F : localeCompare(RelName(plat, x), RelName(plat, y)) <= 0}

RECURSIVE Ascending(_, _)
\* The listings of F in ascending order of normalized relative path (more than
\* one where two paths compare equal).
Ascending(plat, F) ==
  IF F = {} THEN {<<>>}
  ELSE UNION {{<<x>> \o l : l \in Ascending(plat, F \ {x})} : x \in Least(plat, F)}

\* Path, 0x00, bytes, 0x00 for each file of listing l, concatenated.
Framed(plat, fs, l) ==
  Flatten([i \in 1..Len(l) |-> Utf8(RelName(plat, l[i])) \o <<0>> \o fs[l[i]].data \o <<0>>])

\* C15: the bytes fed to the hash are, for the files of the File Set taken in
\* ascending order of normalized relative path, the path, 0x00, the file's bytes
\* and 0x00; sorting by absolute path puts the files in that order.
C15_StreamLayout ==
  probe.op # "none"
  =>
    /\ ~probe.after.err
    /\ \E l \in Ascending(platform, FileSet(tree)) :
         probe.after.digest = Hex(sha256(Framed(platform, tree, l)))

\* readdir reported two files of the renderer directory in descending order and
\* the fingerprint was taken.
C15_Witness ==
  LET l == tree[a2uiRendererDir(platform)].list
  IN  /\ probe.op = "reorder"
      /\ Len(l) = 2
      /\ localeCompare(l[1], l[2]) > 0
      /\ ~probe.after.err
      /\ tree[Join(platform, a2uiRendererDir(platform), l[1])].data # <<>>

\* C16 (as claimed): two file sets that differ in their paths or in the bytes
\* of a file, contents being any bytes, have different digests (the hash taken
\* as injective on the framed stream).
C16_FramingInjective ==
  probe.op = "replace" =>
    /\ ~probe.before.err /\ ~probe.after.err
    /\ probe.after.digest # probe.before.digest

\* The names a directory of the tree lists, as paths.
Children(plat, fs, d) == {Join(plat, d, fs[d].list[i]) : i \in 1..Len(fs[d].list)}

RECURSIVE Reach(_, _, _)
\* The paths reachable from the paths of S through directory listings.
Reach(plat, fs, S) ==
  LET T == S \cup UNION {Children(plat, fs, d) : d \in {x \in S : Stat(fs, x).kind = "dir"}}
  IN  IF T = S THEN S ELSE Reach(plat, fs, T)

\* The four input roots as a set.
Roots(plat) == {inputPaths(plat)[i] : i \in 1..Len(inputPaths(plat))}

\* C17: the list walk builds from the four input roots holds exactly the
\* non-directory entries reachable from them, each once and no directory: a
\* single-file root gives that file, an empty directory nothing, and nested
\* directories their files at every depth.
C17_WalkExact ==
  probe.op = "walk"
  =>
    LET files == probe.walked.files
        reach == Reach(platform, tree, Roots(platform))
    IN  /\ ~probe.walked.err
        /\ {files[i] : i \in 1..Len(files)} = {p \in reach : Stat(tree, p).kind = "file"}
        /\ \A i \in 1..Len(files) : \A j \in 1..Len(files) : files[i] = files[j] => i = j
        /\ \A i \in 1..Len(files) : Stat(tree, files[i]).kind # "dir"

\* The walk went over an empty app directory and a renderer directory with a
\* file of its own and one two directories further down.
C17_Witness ==
  LET r == a2uiRendererDir(platform)
      sub == Join(platform, Join(platform, r, dirName), dirName)
      files == probe.walked.files
  IN  /\ probe.op = "walk"
      /\ tree[a2uiAppDir(platform)].list = <<>>
      /\ Stat(tree, Join(platform, r, fileName)).kind = "file"
      /\ Stat(tree, Join(platform, sub, fileName)).kind = "file"
      /\ Stat(tree, Join(platform, Join(platform, r, dirName), fileName)).kind = "none"
      /\ \E i \in 1..Len(files) : files[i] = Join(platform, sub, fileName)
      /\ \E i \in 1..Len(files) : files[i] = manifestPath(platform)

\* npm_execpath is a string in which "pnpm" occurs, letters in either case.
NamesPnpm(e) ==
  /\ e.set
  /\ \E i \in 1..(Len(e.value) - 3) :
       /\ e.value[i] \in {112, 80}
       /\ e.value[i + 1] \in {110, 78}
       /\ e.value[i + 2] \in {112, 80}
       /\ e.value[i + 3] \in {109, 77}

\* The k-th spawnSync call of a run is for tsc, then rolldown.
StageOfCall(k) == IF k = 1 THEN "tsc" ELSE "rolldown"

\* The stage's arguments separated by single spaces.
Spaced(a) == a[1] \o <<32>> \o a[2] \o <<32>> \o a[3] \o <<32>> \o a[4] \o <<32>> \o a[5]

\* C18: what a stage is spawned as depends on npm_execpath and the platform
\* only: with "pnpm" in npm_execpath (either case) it is the node executable
\* with npm_execpath put before the stage's arguments, otherwise "pnpm.cmd" on
\* win32 and "pnpm" elsewhere with the arguments as they are; both stages of a run
\* are spawned the same way; the message of a failed stage is "Command failed:
\* pnpm " and the stage's own arguments, without the runner path.
C18_RunnerSelection ==
  /\ Len(runner.calls) = Cardinality({i \in 1..Len(log) : log[i].ev = "spawn"})
  /\ \A k \in 1..Len(runner.calls) :
       LET c == runner.calls[k]
           a == stageArgs(platform, StageOfCall(k))
       IN  IF NamesPnpm(runner.env)
             THEN c.command = execPath /\ c.args = <<runner.env.value>> \o a
             ELSE /\ c.command = (IF platform = "win32" THEN pnpmCmd ELSE pnpmWord)
                  /\ c.args = a
  /\ Len(runner.calls) = 2 => runner.calls[1].command = runner.calls[2].command
  /\ outcome = "status" =>
       runner.thrown = commandFailedPrefix \o Spaced(stageArgs(platform, log[Len(log)].stage))
  /\ outcome # "status" => runner.thrown = <<>>

\* On win32 with npm_execpath "/PnPm.c" both stages were spawned and rolldown
\* exited non-zero.
C18_Witness ==
  /\ pc = "exited"
  /\ platform = "win32"
  /\ runner.env = ExecPath(<<47, 80, 110, 80, 109, 46, 99>>)
  /\ Len(runner.calls) = 2
  /\ outcome = "status"
  /\ runner.thrown # <<>>

====
